---------------------------- MODULE Spec2Model ----------------------------
(***************************************************************************)
(* A model of sendme's src/main.rs: the path sanitizers                    *)
(* (canonicalized_path_to_string, validate_path_component,                 *)
(* get_export_path), collection assembly (import), export, the download   *)
(* progress display (show_download_progress), the get operation that runs  *)
(* it beside the fetch, and provide with main's exit status.               *)
(*                                                                         *)
(* Strings and paths are sequences of one-character strings, so that       *)
(* splitting, joining and component parsing are computed, not assumed.     *)
(***************************************************************************)
EXTENDS Integers, Sequences, FiniteSets, TLC

VARIABLES
    \* ---- path sanitizers (one call of each on one input) ----
    name,          \* the path or entry name handed to the sanitizer
    root,          \* get_export_path's destination root
    must_be_relative, \* canonicalized_path_to_string's flag
    sanRes,        \* result of canonicalized_path_to_string
    expRes,        \* result of get_export_path
    ppc            \* "input" | "sanitized" | "exported"

pathVars == <<name, root, must_be_relative, sanRes, expRes, ppc>>

VARIABLES
    \* ---- import ----
    path_exists,   \* whether the path handed to import exists
    walk,          \* what WalkDir yields, in its order
    cpus,          \* num_cpus::get()
    ipc,           \* "start" | "ingest" | "store" | "drop" | "done"
    data_sources,  \* the (name, path) pairs, in enumeration order
    next,          \* index of the next data source the stream hands out
    in_flight,     \* data sources whose import_file is running
    names_and_tags, \* results of import_file, in completion order
    size,          \* total size of all files
    collection,    \* the (name, hash) pairs of the Collection
    tags,          \* data sources whose TempTag is alive
    db,            \* the Collections persisted in the store
    store_calls,   \* calls of collection.store
    ires           \* "none" | "ok" | "err": what import returned

importVars == <<path_exists, walk, cpus, ipc, data_sources, next, in_flight,
                names_and_tags, size, collection, tags, db, store_calls, ires>>

VARIABLES
    \* ---- show_download_progress ----
    op,            \* the overall progress bar
    ip,            \* the individual (current item) progress bar
    seq,           \* whether FoundHashSeq was consumed
    x,             \* the event the loop consumed last
    consumed,      \* how many events the loop consumed
    summaries,     \* how many "Transferred ..." lines were written
    rpc            \* "idle" | "running" | "ok" | "err": the function's position
                   \* or what it returned

redVars == <<op, ip, seq, x, consumed, summaries, rpc>>

VARIABLES
    \* ---- get: the fetch, the progress task and main ----
    is_seq,        \* whether the ticket names a hash sequence (a collection)
    n_items,       \* how many items the fetch announces and transfers
    chan,          \* the flume channel from the fetch to the progress task
    chan_closed,   \* whether the channel's sender was dropped
    fpc,           \* where the fetch is in its event stream
    f_item,        \* index of the item the fetch is at
    f_size,        \* declared size of that item
    f_progress,    \* Progress events sent for that item
    fres,          \* "none" | "ok" | "err": what get::get returned
    gpc,           \* "idle" | "start" | "fetch" | "export" | "returned" | "exited"
    gres,          \* "none" | "ok" | "err": what get returned
    exit_code,     \* the process's exit status, -1 while it runs
    err_out,       \* "error: ..." lines main wrote to stderr
    positions      \* the overall bar's position after each item and
                   \* completion event the progress task consumed

getVars == <<is_seq, n_items, chan, chan_closed, fpc, f_item, f_size, f_progress,
             fres, gpc, gres, exit_code, err_out, positions>>

VARIABLES
    \* ---- import called once more on the same tree ----
    run,           \* 1 or 2: which call of import is running
    prev_collection \* the Collection the first call built

againVars == <<run, prev_collection>>

VARIABLES
    \* ---- export ----
    epc,           \* "idle" | "load" | "cwd" | "loop" | "done"
    loaded,        \* the Collection export loaded from the store
    cwd,           \* std::env::current_dir(), export's destination root
    entry_k,       \* position of the entry the loop is at
    disk,          \* the files export wrote: [loc, hash] records
    exported,      \* positions of the entries exported, in the order of export
    eres           \* "none" | "ok" | "err": what export returned

exportVars == <<epc, loaded, cwd, entry_k, disk, exported, eres>>

VARIABLES
    \* ---- provide and main ----
    vpc,           \* where provide is
    dir_at_start,  \* whether .sendme-provide existed when provide started
    dir_exists,    \* whether .sendme-provide exists now
    created,       \* whether this run created .sendme-provide
    out,           \* the lines written to stdout
    errs,          \* the lines written to stderr
    pres,          \* "none" | "ok" | "err": what provide returned
    pexit,         \* the process's exit status, -1 while it runs
    ticket,        \* whether the ticket was printed
    accepted       \* connections accepted so far

provideVars == <<vpc, dir_at_start, dir_exists, created, out, errs, pres, pexit,
                 ticket, accepted>>

vars == <<pathVars, importVars, redVars, getVars, againVars, exportVars,
          provideVars>>

-----------------------------------------------------------------------------
(* Bounds *)

\* longest generated path string, in characters
MaxNameLen == 4

\* most entries WalkDir yields (the root included)
MaxEntries == 3

\* most processing units
MaxCpus == 2

\* most children a FoundHashSeq event announces, largest child index
MaxChildren == 2

\* largest blob size and progress offset
MaxSize == 2

\* most events fed to show_download_progress
MaxEvents == 6

\* most Progress events the fetch sends for one item
MaxProgress == 1

\* most connections provide accepts before its endpoint closes
MaxAccepts == 2

\* capacity of the channel between the fetch and the progress task
ChanCap == 32

-----------------------------------------------------------------------------
(* Strings *)

\* a byte sequence that is not valid UTF-8 (OsStr::to_str gives None)
BadByte == "<ff>"

Alphabet == {"a", ".", "/", "\\"}

StringsOver(A, n) == UNION {[1..k -> A] : k \in 0..n}

Contains(s, ch) == \E i \in 1..Len(s) : s[i] = ch

RECURSIVE SplitAcc(_, _, _)
SplitAcc(s, cur, acc) ==
    IF s = <<>> THEN Append(acc, cur)
    ELSE IF Head(s) = "/" THEN SplitAcc(Tail(s), <<>>, Append(acc, cur))
    ELSE SplitAcc(Tail(s), Append(cur, Head(s)), acc)

\* str::split("/"): "" gives [""], "/abs" gives ["", "abs"], "a/" gives ["a", ""]
Split(s) == SplitAcc(s, <<>>, <<>>)

RECURSIVE Join(_)
\* [..].join("/")
Join(parts) ==
    IF parts = <<>> THEN <<>>
    ELSE IF Len(parts) = 1 THEN parts[1]
    ELSE parts[1] \o <<"/">> \o Join(Tail(parts))

Ok(v) == [ok |-> TRUE, val |-> v]
Err == [ok |-> FALSE, val |-> <<>>]

-----------------------------------------------------------------------------
(* std::path::Path::components, unix flavour *)

Comp(kind, s) == [kind |-> kind, str |-> s]

RECURSIVE ClassifyParts(_, _, _)
\* has_root: the path began with "/"; first: no component was produced yet
ClassifyParts(parts, has_root, first) ==
    IF parts = <<>> THEN <<>>
    ELSE LET p == Head(parts)
             rest == Tail(parts)
         IN  IF p = <<>> THEN ClassifyParts(rest, has_root, first)
             ELSE IF p = <<".">> THEN
                 IF first /\ ~has_root
                 THEN <<Comp("CurDir", p)>> \o ClassifyParts(rest, has_root, FALSE)
                 ELSE ClassifyParts(rest, has_root, first)
             ELSE IF p = <<".", ".">> THEN
                 <<Comp("ParentDir", p)>> \o ClassifyParts(rest, has_root, FALSE)
             ELSE <<Comp("Normal", p)>> \o ClassifyParts(rest, has_root, FALSE)

Components(p) ==
    LET has_root == p # <<>> /\ p[1] = "/"
    IN  (IF has_root THEN <<Comp("RootDir", <<"/">>)>> ELSE <<>>)
        \o ClassifyParts(Split(p), has_root, TRUE)

-----------------------------------------------------------------------------
(* validate_path_component, canonicalized_path_to_string, get_export_path *)

validate_path_component(component) == ~Contains(component, "/")

\* ComponentOutcome without the test for a backslash
ComponentOutcomeBackslashKept(c, mbr) ==
    IF c.kind = "Normal" THEN
        IF Contains(c.str, BadByte) THEN "err"
        ELSE IF ~Contains(c.str, "/") THEN "ok"
        ELSE "err"
    ELSE IF c.kind = "RootDir" THEN
        IF mbr THEN "err" ELSE "skip"
    ELSE "err"

\* the closure of the filter_map: "ok" keeps the component, "skip" drops it
\* (after pushing '/'), "err" fails the whole conversion
ComponentOutcome(c, mbr) ==
    IF c.kind = "Normal" THEN
        IF Contains(c.str, BadByte) THEN "err"
        ELSE IF ~Contains(c.str, "/") /\ ~Contains(c.str, "\\") THEN "ok"
        ELSE "err"
    ELSE IF c.kind = "RootDir" THEN
        IF mbr THEN "err" ELSE "skip"
    ELSE "err"

RECURSIVE KeptParts(_, _)
KeptParts(comps, mbr) ==
    IF comps = <<>> THEN <<>>
    ELSE IF ComponentOutcome(Head(comps), mbr) = "ok"
         THEN <<Head(comps).str>> \o KeptParts(Tail(comps), mbr)
         ELSE KeptParts(Tail(comps), mbr)

canonicalized_path_to_string(p, mbr) ==
    LET comps == Components(p)
        path_str == IF \E i \in 1..Len(comps) : comps[i].kind = "RootDir"
                    THEN <<"/">> ELSE <<>>
    IN  IF \E i \in 1..Len(comps) : ComponentOutcome(comps[i], mbr) = "err"
        THEN Err
        ELSE Ok(path_str \o Join(KeptParts(comps, mbr)))

\* PathBuf::push: an absolute part replaces the path, otherwise the part is
\* appended after a separator (added unless the path already ends with one)
PathBufPush(p, part) ==
    IF part # <<>> /\ part[1] = "/" THEN part
    ELSE IF p # <<>> /\ p[Len(p)] # "/" THEN p \o <<"/">> \o part
    ELSE p \o part

RECURSIVE PushAll(_, _)
PushAll(p, parts) ==
    IF parts = <<>> THEN Ok(p)
    ELSE IF ~validate_path_component(Head(parts)) THEN Err
    ELSE PushAll(PathBufPush(p, Head(parts)), Tail(parts))

\* get_export_path pushing the last part of the name only
get_export_path_flat(r, n) == PushAll(r, <<Split(n)[Len(Split(n))]>>)

get_export_path(r, n) == PushAll(r, Split(n))

\* where the operating system finds a path: ".." steps to the parent (the
\* root's parent is the root), "." stays; the result is the list of directory
\* names from "/"
RECURSIVE ResolveFrom(_, _)
ResolveFrom(loc, comps) ==
    IF comps = <<>> THEN loc
    ELSE LET c == Head(comps)
         IN  IF c.kind = "RootDir" THEN ResolveFrom(<<>>, Tail(comps))
             ELSE IF c.kind = "CurDir" THEN ResolveFrom(loc, Tail(comps))
             ELSE IF c.kind = "ParentDir"
                  THEN ResolveFrom(IF loc = <<>> THEN <<>>
                                   ELSE SubSeq(loc, 1, Len(loc) - 1),
                                   Tail(comps))
             ELSE ResolveFrom(Append(loc, c.str), Tail(comps))

Resolve(p) == ResolveFrom(<<>>, Components(p))

IsUnder(loc, base) ==
    Len(loc) >= Len(base) /\ SubSeq(loc, 1, Len(base)) = base

-----------------------------------------------------------------------------
(* indicatif's ProgressBar, as far as show_download_progress uses it *)

\* no length set
None == -1

InProgress == "InProgress"
DoneHidden == "DoneHidden"

\* the message is the step shown ("[1/3] Connecting", "[2/3] Requesting",
\* "[3/3] Downloading n blob(s)") with the number of blobs it names
Msg(step, blobs) == [step |-> step, blobs |-> blobs]

\* ProgressBar::hidden()
hidden == [message |-> Msg(0, 0), len |-> None, pos |-> 0, status |-> InProgress]

set_message(pb, m) == [pb EXCEPT !.message = m]
set_length(pb, n) == [pb EXCEPT !.len = n]
set_position(pb, p) == [pb EXCEPT !.pos = p]
reset(pb) == [pb EXCEPT !.pos = 0, !.status = InProgress]
\* finishing moves the position to the length, when there is one
finish_and_clear(pb) ==
    [pb EXCEPT !.pos = IF pb.len # None THEN pb.len ELSE pb.pos,
               !.status = DoneHidden]

-----------------------------------------------------------------------------
(* DownloadProgress events *)

\* a DownloadProgress event: FoundHashSeq{children: a}, Found{child: a, size: b},
\* Progress{offset: a, id: b}; "Other" stands for the variants the match leaves to `_`
Ev(kind, a, b) == [kind |-> kind, a |-> a, b |-> b]

Events ==
    {Ev(k, 0, 0) : k \in {"Connected", "Done", "NetworkDone", "AllDone", "Abort", "Other"}}
    \cup {Ev("FoundHashSeq", c, 0) : c \in 0..MaxChildren}
    \cup {Ev("Found", c, sz) : c \in 0..MaxChildren, sz \in 0..MaxSize}
    \cup {Ev("Progress", o, id) : o \in 0..MaxSize, id \in {0, MaxChildren}}

NoEvent == Ev("None", 0, 0)

-----------------------------------------------------------------------------
(* Values of the variables of the parts a specification leaves out *)

IdlePath ==
    /\ name = <<>>
    /\ root = <<>>
    /\ must_be_relative = FALSE
    /\ sanRes = Err
    /\ expRes = Err
    /\ ppc = "idle"

IdleImport ==
    /\ path_exists = FALSE
    /\ walk = <<>>
    /\ cpus = 1
    /\ ipc = "idle"
    /\ data_sources = <<>>
    /\ next = 1
    /\ in_flight = {}
    /\ names_and_tags = <<>>
    /\ size = 0
    /\ collection = <<>>
    /\ tags = {}
    /\ db = {}
    /\ store_calls = 0
    /\ ires = "none"

IdleReducer ==
    /\ op = hidden
    /\ ip = hidden
    /\ seq = FALSE
    /\ x = NoEvent
    /\ consumed = 0
    /\ summaries = 0
    /\ rpc = "idle"

IdleAgain ==
    /\ run = 1
    /\ prev_collection = <<>>

IdleExport ==
    /\ epc = "idle"
    /\ loaded = <<>>
    /\ cwd = <<>>
    /\ entry_k = 1
    /\ disk = {}
    /\ exported = <<>>
    /\ eres = "none"

IdleProvide ==
    /\ vpc = "idle"
    /\ dir_at_start = FALSE
    /\ dir_exists = FALSE
    /\ created = FALSE
    /\ out = <<>>
    /\ errs = <<>>
    /\ pres = "none"
    /\ pexit = -1
    /\ ticket = FALSE
    /\ accepted = 0

IdleGet ==
    /\ is_seq = FALSE
    /\ n_items = 0
    /\ chan = <<>>
    /\ chan_closed = FALSE
    /\ fpc = "idle"
    /\ f_item = 0
    /\ f_size = 0
    /\ f_progress = 0
    /\ fres = "none"
    /\ gpc = "idle"
    /\ gres = "none"
    /\ exit_code = -1
    /\ err_out = 0
    /\ positions = <<>>

-----------------------------------------------------------------------------
(* Specification of the sanitizers: one input, one call *)

\* the names of the path-safety table
RejectNames == {
    <<".", ".", "/", "x">>,
    <<"a", "/", ".", ".", "/", "b">>,
    <<"/", "a", "b", "s">>,
    <<"a", "\\", "b">>,
    <<"a", "/", "b", "/", ".", ".", "/", ".", ".", "/", ".", ".", "/", "e", "t", "c">> }

AcceptNames == {
    <<"a">>,
    <<"a", "/", "b">>,
    <<"a", "/", "b", "/", "c", ".", "t", "x", "t">> }

\* destination roots: std::env::current_dir() is absolute
Roots == { <<"/", "d">>, <<"/", "d", "/", "e">> }

PathInputs ==
    StringsOver(Alphabet \cup {BadByte}, MaxNameLen) \cup RejectNames \cup AcceptNames

InitPath ==
    /\ IdleAgain
    /\ IdleExport
    /\ IdleProvide
    /\ IdleImport
    /\ IdleReducer
    /\ IdleGet
    /\ name \in PathInputs
    /\ root \in Roots
    /\ must_be_relative \in BOOLEAN
    /\ sanRes = Err
    /\ expRes = Err
    /\ ppc = "input"

Sanitize ==
    /\ ppc = "input"
    /\ sanRes' = canonicalized_path_to_string(name, must_be_relative)
    /\ ppc' = "sanitized"
    /\ UNCHANGED <<name, root, must_be_relative, expRes>>
    /\ UNCHANGED <<importVars, redVars, getVars>>
    /\ UNCHANGED <<againVars, exportVars, provideVars>>

\* a name is a &str: always valid UTF-8
ExportPath ==
    /\ ppc = "input"
    /\ ~Contains(name, BadByte)
    /\ expRes' = get_export_path(root, name)
    /\ ppc' = "exported"
    /\ UNCHANGED <<name, root, must_be_relative, sanRes>>
    /\ UNCHANGED <<importVars, redVars, getVars>>
    /\ UNCHANGED <<againVars, exportVars, provideVars>>

NextPath == Sanitize \/ ExportPath

SpecPath == InitPath /\ [][NextPath]_vars

-----------------------------------------------------------------------------
(* import *)

\* the directory that holds the import root, and the root's own name
ParentPath == <<"/", "p">>
RootName == <<"r">>

\* names a file or directory can have on disk: no "/", never "." or ".."
FsNames == { <<"a">>, <<"b">>, <<"\\">> }

\* file contents; a blob's hash stands for its content
Contents == { <<>>, <<"x", "y">> }

\* what WalkDir can yield for one entry: "error" is an Err item (a directory
\* that cannot be read), the others are entries with that file type
Entry(rel, kind, content) == [rel |-> rel, kind |-> kind, content |-> content]

EntriesAt(rel) ==
    {Entry(rel, "file", c) : c \in Contents}
    \cup {Entry(rel, k, <<>>) : k \in {"dir", "symlink", "error"}}

\* WalkDir is depth first: the next entry lies in the directory just yielded
\* or in one of the directories that contain the last entry
OpenDirs(w) ==
    LET last == w[Len(w)]
    IN  {w[j].rel : j \in {j \in 1..Len(w) : /\ w[j].kind = "dir"
                                             /\ Len(w[j].rel) <= Len(last.rel)
                                             /\ SubSeq(last.rel, 1, Len(w[j].rel)) = w[j].rel
                                             /\ (j = Len(w) \/ Len(w[j].rel) < Len(last.rel))}}

Extensions(w) ==
    UNION { UNION { EntriesAt(Append(d, n)) :
                    n \in {n \in FsNames : \A j \in 1..Len(w) : w[j].rel # Append(d, n)} } :
            d \in OpenDirs(w) }

RECURSIVE Walks(_)
Walks(n) ==
    IF n = 1 THEN { <<e>> : e \in {e \in EntriesAt(<<RootName>>) : e.kind \in {"file", "dir"}} }
    ELSE LET prev == Walks(n - 1)
         IN  prev \cup UNION { { Append(w, e) : e \in Extensions(w) } :
                                w \in {w \in prev : Len(w) = n - 1} }

\* Path::strip_prefix
strip_prefix(p, base) ==
    LET pc == Components(p)
        bc == Components(base)
    IN  IF Len(pc) >= Len(bc) /\ SubSeq(pc, 1, Len(bc)) = bc
        THEN Ok(Join([i \in 1..(Len(pc) - Len(bc)) |-> pc[Len(bc) + i].str]))
        ELSE Err

\* entry.into_path(): the entry's absolute path
EntryPath(e) == PathBufPush(ParentPath, Join(e.rel))

\* DataSource skipping directories only, so that a symlink is named too
DataSourceSymlinkKept(e) ==
    IF e.kind = "error" THEN [tag |-> "err", name |-> <<>>]
    ELSE IF e.kind = "dir" THEN [tag |-> "none", name |-> <<>>]
    ELSE [tag |-> "some", name |-> Join(e.rel)]

\* the closure of the map over WalkDir's items: "err", "none" (skipped) or
\* the entry's name
DataSource(e) ==
    IF e.kind = "error" THEN [tag |-> "err", name |-> <<>>]
    ELSE IF e.kind # "file" THEN [tag |-> "none", name |-> <<>>]
    ELSE LET relative == strip_prefix(EntryPath(e), ParentPath)
             n == IF relative.ok
                  THEN canonicalized_path_to_string(relative.val, TRUE)
                  ELSE Err
         IN  IF n.ok THEN [tag |-> "some", name |-> n.val]
             ELSE [tag |-> "err", name |-> <<>>]

RECURSIVE SelectSome(_, _)
\* filter_map(Result::transpose): the named entries, in enumeration order
SelectSome(w, i) ==
    IF i > Len(w) THEN <<>>
    ELSE IF DataSource(w[i]).tag = "some"
         THEN <<[name |-> DataSource(w[i]).name, entry |-> i]>> \o SelectSome(w, i + 1)
         ELSE SelectSome(w, i + 1)

\* *tag.hash()
HashOf(content) == content

RECURSIVE SumSizes(_, _)
SumSizes(nt, i) ==
    IF i > Len(nt) THEN 0 ELSE nt[i].file_size + SumSizes(nt, i + 1)

\* the unzip into a Collection: one (name, hash) per result, in the results' order
Unzip(nt) == [i \in 1..Len(nt) |-> [name |-> nt[i].name, hash |-> nt[i].hash]]

InitImport ==
    /\ IdleAgain
    /\ IdleExport
    /\ IdleProvide
    /\ IdlePath
    /\ IdleReducer
    /\ IdleGet
    /\ path_exists \in BOOLEAN
    /\ walk \in (IF path_exists THEN Walks(MaxEntries) ELSE {<<>>})
    /\ cpus \in 1..MaxCpus
    /\ ipc = "start"
    /\ data_sources = <<>>
    /\ next = 1
    /\ in_flight = {}
    /\ names_and_tags = <<>>
    /\ size = 0
    /\ collection = <<>>
    /\ tags = {}
    /\ db = {}
    /\ store_calls = 0
    /\ ires = "none"

\* EnumerationFails looking at the root only
EnumerationFailsRootOnly(exists, w) == ~exists

\* lines 180-201: the `?` on canonicalize and the collect into
\* anyhow::Result<Vec<_>>: one Err item fails the whole enumeration
EnumerationFails(exists, w) ==
    ~exists \/ \E i \in 1..Len(w) : DataSource(w[i]).tag = "err"

\* lines 180-201: canonicalize, walk, name every file
Enumerate ==
    /\ ipc = "start"
    /\ IF EnumerationFails(path_exists, walk)
       THEN /\ ires' = "err"
            /\ ipc' = "done"
            /\ UNCHANGED data_sources
       ELSE /\ data_sources' = SelectSome(walk, 1)
            /\ ipc' = "ingest"
            /\ UNCHANGED ires
    /\ UNCHANGED <<path_exists, walk, cpus, next, in_flight, names_and_tags, size,
                   collection, tags, db, store_calls>>
    /\ UNCHANGED <<pathVars, redVars, getVars>>
    /\ UNCHANGED <<againVars, exportVars, provideVars>>

\* PoolHasRoom with one slot too many
PoolHasRoomOneMore(running, width) == running <= width

\* line 214: buffer_unordered(n) polls at most n futures at a time
PoolHasRoom(running, width) == running < width

\* lines 203-214: buffer_unordered takes the next data source when fewer than
\* num_cpus import_file calls are running
StartIngest ==
    /\ ipc = "ingest"
    /\ next <= Len(data_sources)
    /\ PoolHasRoom(Cardinality(in_flight), cpus)
    /\ in_flight' = in_flight \cup {next}
    /\ next' = next + 1
    /\ UNCHANGED <<path_exists, walk, cpus, ipc, data_sources, names_and_tags, size,
                   collection, tags, db, store_calls, ires>>
    /\ UNCHANGED <<pathVars, redVars, getVars>>
    /\ UNCHANGED <<againVars, exportVars, provideVars>>

\* lines 208-211: one import_file ends; its result joins the Vec
IngestResult(i, ok) ==
    IF ok
    THEN [ok |-> TRUE, src |-> i, name |-> data_sources[i].name,
          hash |-> HashOf(walk[data_sources[i].entry].content),
          file_size |-> Len(walk[data_sources[i].entry].content)]
    ELSE [ok |-> FALSE, src |-> i, name |-> <<>>, hash |-> <<>>, file_size |-> 0]

Collected(results, r) == Append(results, r)

CompleteIngest ==
    /\ ipc = "ingest"
    /\ \E i \in in_flight, ok \in BOOLEAN :
        /\ names_and_tags' = Collected(names_and_tags, IngestResult(i, ok))
        /\ in_flight' = in_flight \ {i}
        /\ tags' = IF ok THEN tags \cup {i} ELSE tags
    /\ UNCHANGED <<path_exists, walk, cpus, ipc, data_sources, next, size,
                   collection, db, store_calls, ires>>
    /\ UNCHANGED <<pathVars, redVars, getVars>>
    /\ UNCHANGED <<againVars, exportVars, provideVars>>

\* AllOk looking at the first result only
FirstOk(results) == results = <<>> \/ results[1].ok

\* line 218: collect::<anyhow::Result<Vec<_>>>()?
AllOk(results) == \A i \in 1..Len(results) : results[i].ok

\* TagsAfterUnzip with the tags dropped as the Collection is built
TagsDroppedAtUnzip(t) == {}

\* lines 223-226: the unzip moves every TempTag into the Vec `tags`, alive
\* until line 230
TagsAfterUnzip(t) == t

\* lines 215-226: every import_file has ended; fail on an Err, else sum the
\* sizes and build the Collection
Collect ==
    /\ ipc = "ingest"
    /\ next > Len(data_sources)
    /\ in_flight = {}
    /\ IF AllOk(names_and_tags)
       THEN /\ size' = SumSizes(names_and_tags, 1)
            /\ collection' = Unzip(names_and_tags)
            /\ tags' = TagsAfterUnzip(tags)
            /\ ipc' = "store"
            /\ UNCHANGED ires
       ELSE /\ ires' = "err"
            /\ tags' = {}
            /\ ipc' = "done"
            /\ UNCHANGED <<size, collection>>
    /\ UNCHANGED <<path_exists, walk, cpus, data_sources, next, in_flight,
                   names_and_tags, db, store_calls>>
    /\ UNCHANGED <<pathVars, redVars, getVars>>
    /\ UNCHANGED <<againVars, exportVars, provideVars>>

\* line 227: collection.store(&db).await?
StoreCollection ==
    /\ ipc = "store"
    /\ store_calls' = store_calls + 1
    /\ \E ok \in BOOLEAN :
        IF ok
        THEN /\ db' = db \cup {collection}
             /\ ipc' = "drop"
             /\ UNCHANGED <<tags, ires>>
        ELSE /\ ires' = "err"
             /\ tags' = {}
             /\ ipc' = "done"
             /\ UNCHANGED db
    /\ UNCHANGED <<path_exists, walk, cpus, data_sources, next, in_flight,
                   names_and_tags, size, collection>>
    /\ UNCHANGED <<pathVars, redVars, getVars>>
    /\ UNCHANGED <<againVars, exportVars, provideVars>>

\* lines 230-231: drop(tags); Ok((temp_tag, size))
DropTags ==
    /\ ipc = "drop"
    /\ tags' = {}
    /\ ires' = "ok"
    /\ ipc' = "done"
    /\ UNCHANGED <<path_exists, walk, cpus, data_sources, next, in_flight,
                   names_and_tags, size, collection, db, store_calls>>
    /\ UNCHANGED <<pathVars, redVars, getVars>>
    /\ UNCHANGED <<againVars, exportVars, provideVars>>

NextImport ==
    \/ Enumerate
    \/ StartIngest
    \/ CompleteIngest
    \/ Collect
    \/ StoreCollection
    \/ DropTags

SpecImport == InitImport /\ [][NextImport]_vars

\* import is called once more with the same path: the tree, the pool width
\* and the store are what the first call left; the locals start afresh
ImportAgain ==
    /\ run = 1
    /\ ipc = "done"
    /\ ires = "ok"
    /\ run' = 2
    /\ prev_collection' = collection
    /\ ipc' = "start"
    /\ data_sources' = <<>>
    /\ next' = 1
    /\ in_flight' = {}
    /\ names_and_tags' = <<>>
    /\ size' = 0
    /\ collection' = <<>>
    /\ tags' = {}
    /\ ires' = "none"
    /\ UNCHANGED <<path_exists, walk, cpus, db, store_calls>>
    /\ UNCHANGED <<pathVars, redVars, getVars, exportVars, provideVars>>

NextImportAgain == NextImport \/ ImportAgain

SpecImportAgain == InitImport /\ [][NextImportAgain]_vars

-----------------------------------------------------------------------------
(* export *)

\* Collection::load of a Collection that Collection::store persisted: its
\* entries, in their order
CollectionLoad(stored) == stored

\* db.export writes the blob to the target, replacing a file that is there
Written(files, loc, hash) ==
    {f \in files : f.loc # loc} \cup {[loc |-> loc, hash |-> hash]}

\* OnExportResult going on after an error
OnExportResultIgnored(ok) == "next"

\* line 250: the `?` on db.export
OnExportResult(ok) == IF ok THEN "next" ELSE "return"

\* line 245: export loads the Collection that import stored
ExportLoad ==
    /\ epc = "idle"
    /\ ipc = "done"
    /\ ires = "ok"
    /\ collection \in db
    /\ \E ok \in BOOLEAN :
        IF ok
        THEN /\ loaded' = CollectionLoad(collection)
             /\ epc' = "cwd"
             /\ UNCHANGED eres
        ELSE /\ eres' = "err"
             /\ epc' = "done"
             /\ UNCHANGED loaded
    /\ UNCHANGED <<cwd, entry_k, disk, exported>>
    /\ UNCHANGED <<pathVars, importVars, redVars, getVars, againVars, provideVars>>

\* line 246: std::env::current_dir()?
ExportCwd ==
    /\ epc = "cwd"
    /\ \E ok \in BOOLEAN :
        IF ok
        THEN /\ cwd' \in Roots
             /\ epc' = "loop"
             /\ UNCHANGED eres
        ELSE /\ eres' = "err"
             /\ epc' = "done"
             /\ UNCHANGED cwd
    /\ UNCHANGED <<loaded, entry_k, disk, exported>>
    /\ UNCHANGED <<pathVars, importVars, redVars, getVars, againVars, provideVars>>

\* lines 247-251: one turn of the loop
ExportEntry ==
    /\ epc = "loop"
    /\ entry_k <= Len(loaded)
    /\ LET target == get_export_path(cwd, loaded[entry_k].name)
       IN  IF ~target.ok
           THEN /\ eres' = "err"
                /\ epc' = "done"
                /\ UNCHANGED <<entry_k, disk, exported>>
           ELSE \E ok \in BOOLEAN :
                IF OnExportResult(ok) = "next"
                THEN /\ disk' = IF ok
                                THEN Written(disk, Resolve(target.val),
                                             loaded[entry_k].hash)
                                ELSE disk
                     /\ exported' = IF ok THEN Append(exported, entry_k)
                                    ELSE exported
                     /\ entry_k' = entry_k + 1
                     /\ UNCHANGED <<epc, eres>>
                ELSE /\ eres' = "err"
                     /\ epc' = "done"
                     /\ UNCHANGED <<entry_k, disk, exported>>
    /\ UNCHANGED <<loaded, cwd>>
    /\ UNCHANGED <<pathVars, importVars, redVars, getVars, againVars, provideVars>>

\* line 252: Ok(())
ExportReturn ==
    /\ epc = "loop"
    /\ entry_k > Len(loaded)
    /\ eres' = "ok"
    /\ epc' = "done"
    /\ UNCHANGED <<loaded, cwd, entry_k, disk, exported>>
    /\ UNCHANGED <<pathVars, importVars, redVars, getVars, againVars, provideVars>>

NextExport ==
    \/ ExportLoad
    \/ ExportCwd
    \/ ExportEntry
    \/ ExportReturn

\* import of a tree, then export of the Collection it stored
NextTransfer == NextImport \/ NextExport

SpecTransfer == InitImport /\ [][NextTransfer]_vars

-----------------------------------------------------------------------------
(* show_download_progress *)

\* lines 342-347
OpAtStart == set_message(hidden, Msg(1, 0))
IpAtStart == hidden

\* lines 350-352
OnConnected(o) == set_message(o, Msg(2, 0))

\* OnFoundHashSeq counting the children only
OnFoundHashSeqChildrenOnly(o, children) ==
    reset(set_length(set_message(o, Msg(3, children)), children))

\* lines 353-362
OnFoundHashSeq(o, children) ==
    reset(set_length(set_message(o, Msg(3, children + 1)), children + 1))

\* lines 364-368
OnFoundOp(o, sq, child) ==
    IF sq THEN set_position(o, child) ELSE finish_and_clear(o)

\* OnFoundIp without the reset
OnFoundIpNoReset(i, sz) == set_length(i, sz)

\* lines 369-370
OnFoundIp(i, sz) == reset(set_length(i, sz))

\* OnProgress moving the bar's length instead of its position
OnProgressSetsLength(i, offset) == set_length(i, offset)

\* lines 372-374
OnProgress(i, offset) == set_position(i, offset)

\* lines 375-377
OnDone(i) == finish_and_clear(i)

\* lines 383
OnNetworkDone(o) == finish_and_clear(o)

\* lines 391-396: AllDone breaks out of the loop, Abort bails
AfterEvent(kind) ==
    IF kind = "AllDone" THEN "ok"
    ELSE IF kind = "Abort" THEN "err"
    ELSE "running"

\* one turn of the loop of lines 348-399 on event ev
Reduce(ev) ==
    /\ rpc = "running"
    /\ x' = ev
    /\ consumed' = consumed + 1
    /\ op' = IF ev.kind = "Connected" THEN OnConnected(op)
             ELSE IF ev.kind = "FoundHashSeq" THEN OnFoundHashSeq(op, ev.a)
             ELSE IF ev.kind = "Found" THEN OnFoundOp(op, seq, ev.a)
             ELSE IF ev.kind = "NetworkDone" THEN OnNetworkDone(op)
             ELSE op
    /\ ip' = IF ev.kind = "Found" THEN OnFoundIp(ip, ev.b)
             ELSE IF ev.kind = "Progress" THEN OnProgress(ip, ev.a)
             ELSE IF ev.kind = "Done" THEN OnDone(ip)
             ELSE ip
    /\ seq' = (seq \/ ev.kind = "FoundHashSeq")
    /\ summaries' = IF ev.kind = "NetworkDone" THEN summaries + 1 ELSE summaries
    /\ rpc' = AfterEvent(ev.kind)

\* the stream ended: the loop is left and Ok(()) returned (line 400)
StreamEnded ==
    /\ rpc = "running"
    /\ rpc' = "ok"
    /\ UNCHANGED <<op, ip, seq, x, consumed, summaries>>

RunningReducer ==
    /\ op = OpAtStart
    /\ ip = IpAtStart
    /\ seq = FALSE
    /\ x = NoEvent
    /\ consumed = 0
    /\ summaries = 0
    /\ rpc = "running"

\* line 440: tokio::spawn(show_download_progress(..)) starts the function
SpawnReducer ==
    /\ op' = OpAtStart
    /\ ip' = IpAtStart
    /\ seq' = FALSE
    /\ x' = NoEvent
    /\ consumed' = 0
    /\ summaries' = 0
    /\ rpc' = "running"

InitReducer ==
    /\ IdleAgain
    /\ IdleExport
    /\ IdleProvide
    /\ IdlePath
    /\ IdleImport
    /\ IdleGet
    /\ RunningReducer

\* any event may come next
Feed ==
    /\ consumed < MaxEvents
    /\ \E ev \in Events : Reduce(ev)
    /\ UNCHANGED <<pathVars, importVars, getVars>>
    /\ UNCHANGED <<againVars, exportVars, provideVars>>

EndOfStream ==
    /\ StreamEnded
    /\ UNCHANGED <<pathVars, importVars, getVars>>
    /\ UNCHANGED <<againVars, exportVars, provideVars>>

NextReducer == Feed \/ EndOfStream

SpecReducer == InitReducer /\ [][NextReducer]_vars

-----------------------------------------------------------------------------
(* get: lines 431-443, beside the fetch (get::get) and main *)

\* progress.send(ev).await: waits while the channel is full
Send(ev) ==
    /\ Len(chan) < ChanCap
    /\ chan' = Append(chan, ev)

InitGet ==
    /\ IdleAgain
    /\ IdleExport
    /\ IdleProvide
    /\ IdlePath
    /\ IdleImport
    /\ IdleReducer
    /\ is_seq \in BOOLEAN
    /\ n_items \in (IF is_seq THEN 1..(MaxChildren + 1) ELSE {1})
    /\ chan = <<>>
    /\ chan_closed = FALSE
    /\ fpc = "start"
    /\ f_item = 0
    /\ f_size = 0
    /\ f_progress = 0
    /\ fres = "none"
    /\ gpc = "start"
    /\ gres = "none"
    /\ exit_code = -1
    /\ err_out = 0
    /\ positions = <<>>

\* lines 404-440: connect and read the sizes, either of which may fail; then
\* create the channel and spawn show_download_progress
GetStart ==
    /\ gpc = "start"
    /\ \E ok \in BOOLEAN :
        IF ok
        THEN /\ gpc' = "fetch"
             /\ SpawnReducer
             /\ UNCHANGED gres
        ELSE /\ gpc' = "returned"
             /\ gres' = "err"
             /\ UNCHANGED redVars
    /\ UNCHANGED <<is_seq, n_items, chan, chan_closed, fpc, f_item, f_size,
                   f_progress, fres, exit_code, err_out, positions>>
    /\ UNCHANGED <<pathVars, importVars>>
    /\ UNCHANGED <<againVars, exportVars, provideVars>>

\* the fetch's event stream: Connected, FoundHashSeq for a collection, then
\* per item Found, Progress*, Done, then NetworkDone and possibly AllDone
\* the size of the item at index i
ItemSize(i) == 1 + (i % MaxSize)

FetchConnected ==
    /\ gpc = "fetch" /\ fpc = "start"
    /\ Send(Ev("Connected", 0, 0))
    /\ fpc' = IF is_seq THEN "connected" ELSE "items"
    /\ UNCHANGED <<is_seq, n_items, chan_closed, f_item, f_size, f_progress, fres,
                   gpc, gres, exit_code, err_out, positions>>
    /\ UNCHANGED <<pathVars, importVars, redVars>>
    /\ UNCHANGED <<againVars, exportVars, provideVars>>

FetchHashSeq ==
    /\ gpc = "fetch" /\ fpc = "connected"
    /\ Send(Ev("FoundHashSeq", n_items - 1, 0))
    /\ fpc' = "items"
    /\ UNCHANGED <<is_seq, n_items, chan_closed, f_item, f_size, f_progress, fres,
                   gpc, gres, exit_code, err_out, positions>>
    /\ UNCHANGED <<pathVars, importVars, redVars>>
    /\ UNCHANGED <<againVars, exportVars, provideVars>>

FetchFound ==
    /\ gpc = "fetch" /\ fpc = "items" /\ f_item < n_items
    /\ Send(Ev("Found", f_item, ItemSize(f_item)))
    /\ f_size' = ItemSize(f_item)
    /\ f_progress' = 0
    /\ fpc' = "body"
    /\ UNCHANGED <<is_seq, n_items, chan_closed, f_item, fres,
                   gpc, gres, exit_code, err_out, positions>>
    /\ UNCHANGED <<pathVars, importVars, redVars>>
    /\ UNCHANGED <<againVars, exportVars, provideVars>>

FetchProgress ==
    /\ gpc = "fetch" /\ fpc = "body" /\ f_progress < MaxProgress
    /\ Send(Ev("Progress", f_size, 0))
    /\ f_progress' = f_progress + 1
    /\ UNCHANGED <<is_seq, n_items, chan_closed, fpc, f_item, f_size, fres,
                   gpc, gres, exit_code, err_out, positions>>
    /\ UNCHANGED <<pathVars, importVars, redVars>>
    /\ UNCHANGED <<againVars, exportVars, provideVars>>

FetchDone ==
    /\ gpc = "fetch" /\ fpc = "body"
    /\ Send(Ev("Done", 0, 0))
    /\ f_item' = f_item + 1
    /\ fpc' = "items"
    /\ UNCHANGED <<is_seq, n_items, chan_closed, f_size, f_progress, fres,
                   gpc, gres, exit_code, err_out, positions>>
    /\ UNCHANGED <<pathVars, importVars, redVars>>
    /\ UNCHANGED <<againVars, exportVars, provideVars>>

FetchNetworkDone ==
    /\ gpc = "fetch" /\ fpc = "items" /\ f_item = n_items
    /\ Send(Ev("NetworkDone", 0, 0))
    /\ fpc' = "netdone"
    /\ UNCHANGED <<is_seq, n_items, chan_closed, f_item, f_size, f_progress, fres,
                   gpc, gres, exit_code, err_out, positions>>
    /\ UNCHANGED <<pathVars, importVars, redVars>>
    /\ UNCHANGED <<againVars, exportVars, provideVars>>

FetchAllDone ==
    /\ gpc = "fetch" /\ fpc = "netdone"
    /\ Send(Ev("AllDone", 0, 0))
    /\ fpc' = "alldone"
    /\ UNCHANGED <<is_seq, n_items, chan_closed, f_item, f_size, f_progress, fres,
                   gpc, gres, exit_code, err_out, positions>>
    /\ UNCHANGED <<pathVars, importVars, redVars>>
    /\ UNCHANGED <<againVars, exportVars, provideVars>>

\* the transfer fails: the fetch reports Abort before it returns its error
FetchAbort ==
    /\ gpc = "fetch" /\ fpc \in {"start", "connected", "items", "body"}
    /\ Send(Ev("Abort", 0, 0))
    /\ fpc' = "aborting"
    /\ UNCHANGED <<is_seq, n_items, chan_closed, f_item, f_size, f_progress, fres,
                   gpc, gres, exit_code, err_out, positions>>
    /\ UNCHANGED <<pathVars, importVars, redVars>>
    /\ UNCHANGED <<againVars, exportVars, provideVars>>

\* AfterFetch without the `?`
AfterFetchErrorDropped(r) == "export"

\* line 441: get::get(..).await? -- an error ends get, success goes on to export
AfterFetch(r) == IF r = "err" THEN "returned" ELSE "export"

\* get::get returns; the sender it was given is dropped with it
FetchReturn ==
    /\ gpc = "fetch" /\ fpc \in {"netdone", "alldone", "aborting"}
    /\ fres' = IF fpc = "aborting" THEN "err" ELSE "ok"
    /\ fpc' = "returned"
    /\ chan_closed' = TRUE
    /\ gpc' = AfterFetch(fres')
    /\ gres' = IF gpc' = "returned" THEN fres' ELSE gres
    /\ UNCHANGED <<is_seq, n_items, chan, f_item, f_size, f_progress,
                   exit_code, err_out, positions>>
    /\ UNCHANGED <<pathVars, importVars, redVars>>
    /\ UNCHANGED <<againVars, exportVars, provideVars>>

\* line 442-443: export(db, hash_and_format).await?; Ok(())
Export ==
    /\ gpc = "export"
    /\ \E ok \in BOOLEAN : gres' = IF ok THEN "ok" ELSE "err"
    /\ gpc' = "returned"
    /\ UNCHANGED <<is_seq, n_items, chan, chan_closed, fpc, f_item, f_size,
                   f_progress, fres, exit_code, err_out, positions>>
    /\ UNCHANGED <<pathVars, importVars, redVars>>
    /\ UNCHANGED <<againVars, exportVars, provideVars>>

\* lines 454-460: main leaves the process, which ends the progress task with it
MainExit ==
    /\ gpc = "returned"
    /\ exit_code' = IF gres = "ok" THEN 0 ELSE 1
    /\ err_out' = IF gres = "ok" THEN err_out ELSE err_out + 1
    /\ gpc' = "exited"
    /\ UNCHANGED <<is_seq, n_items, chan, chan_closed, fpc, f_item, f_size,
                   f_progress, fres, gres, positions>>
    /\ UNCHANGED <<pathVars, importVars, redVars>>
    /\ UNCHANGED <<againVars, exportVars, provideVars>>

\* the progress task takes the next event from the channel
TaskStep ==
    /\ gpc \in {"fetch", "export", "returned"}
    /\ chan # <<>>
    /\ Reduce(Head(chan))
    /\ chan' = Tail(chan)
    /\ positions' = IF Head(chan).kind \in {"Found", "Done", "NetworkDone"}
                    THEN Append(positions, op'.pos)
                    ELSE positions
    /\ UNCHANGED <<is_seq, n_items, chan_closed, fpc, f_item, f_size, f_progress,
                   fres, gpc, gres, exit_code, err_out>>
    /\ UNCHANGED <<pathVars, importVars>>
    /\ UNCHANGED <<againVars, exportVars, provideVars>>

\* the channel is empty and its sender gone: the stream ends
TaskEnd ==
    /\ gpc \in {"fetch", "export", "returned"}
    /\ chan = <<>> /\ chan_closed
    /\ StreamEnded
    /\ UNCHANGED <<pathVars, importVars, getVars>>
    /\ UNCHANGED <<againVars, exportVars, provideVars>>

NextGet ==
    \/ GetStart
    \/ FetchConnected
    \/ FetchHashSeq
    \/ FetchFound
    \/ FetchProgress
    \/ FetchDone
    \/ FetchNetworkDone
    \/ FetchAllDone
    \/ FetchAbort
    \/ FetchReturn
    \/ Export
    \/ MainExit
    \/ TaskStep
    \/ TaskEnd

SpecGet == InitGet /\ [][NextGet]_vars

-----------------------------------------------------------------------------
(* provide and main *)

\* the lines provide writes to stdout, and main's line on stderr
TwiceLine == "can not share twice from the same directory"
ImportedLine == "imported file"
TicketLines == <<"use", "sendme get", "to get this data">>
ErrorLine == "error:"

InitProvide ==
    /\ IdlePath
    /\ IdleReducer
    /\ IdleGet
    /\ IdleAgain
    /\ IdleExport
    /\ path_exists \in BOOLEAN
    /\ walk \in (IF path_exists THEN Walks(MaxEntries) ELSE {<<>>})
    /\ cpus \in 1..MaxCpus
    /\ ipc = "idle"
    /\ data_sources = <<>>
    /\ next = 1
    /\ in_flight = {}
    /\ names_and_tags = <<>>
    /\ size = 0
    /\ collection = <<>>
    /\ tags = {}
    /\ db = {}
    /\ store_calls = 0
    /\ ires = "none"
    /\ vpc = "start"
    /\ dir_at_start \in BOOLEAN
    /\ dir_exists = dir_at_start
    /\ created = FALSE
    /\ out = <<>>
    /\ errs = <<>>
    /\ pres = "none"
    /\ pexit = -1
    /\ ticket = FALSE
    /\ accepted = 0

\* a `?` of provide returns the error to main
ProvideFails ==
    /\ pres' = "err"
    /\ vpc' = "returned"

\* lines 256-262: the secret key and the endpoint
Bind ==
    /\ vpc = "start"
    /\ \E ok \in BOOLEAN :
        IF ok THEN vpc' = "check" /\ UNCHANGED pres ELSE ProvideFails
    /\ UNCHANGED <<dir_at_start, dir_exists, created, out, errs, pexit, ticket,
                   accepted>>
    /\ UNCHANGED <<pathVars, importVars, redVars, getVars, againVars, exportVars>>

\* DataDirInUse never finding the directory
DataDirNeverInUse(exists) == FALSE

\* line 265: iroh_data_dir.exists()
DataDirInUse(exists) == exists

\* lines 264-268: the data directory must not exist; if it does, one line on
\* stdout and std::process::exit(1)
CheckDataDir ==
    /\ vpc = "check"
    /\ IF DataDirInUse(dir_exists)
       THEN /\ out' = Append(out, TwiceLine)
            /\ pexit' = 1
            /\ vpc' = "exited"
       ELSE /\ vpc' = "create"
            /\ UNCHANGED <<out, pexit>>
    /\ UNCHANGED <<dir_at_start, dir_exists, created, errs, pres, ticket, accepted>>
    /\ UNCHANGED <<pathVars, importVars, redVars, getVars, againVars, exportVars>>

\* line 269: std::fs::create_dir_all(&iroh_data_dir)?
CreateDataDir ==
    /\ vpc = "create"
    /\ \E ok \in BOOLEAN :
        IF ok
        THEN /\ dir_exists' = TRUE
             /\ created' = TRUE
             /\ vpc' = "load"
             /\ UNCHANGED pres
        ELSE /\ ProvideFails
             /\ UNCHANGED <<dir_exists, created>>
    /\ UNCHANGED <<dir_at_start, out, errs, pexit, ticket, accepted>>
    /\ UNCHANGED <<pathVars, importVars, redVars, getVars, againVars, exportVars>>

\* lines 270-280: the store is loaded from the data directory and import is
\* called with it
LoadStore ==
    /\ vpc = "load"
    /\ \E ok \in BOOLEAN :
        IF ok
        THEN /\ vpc' = "import"
             /\ ipc' = "start"
             /\ UNCHANGED pres
        ELSE /\ ProvideFails
             /\ UNCHANGED ipc
    /\ UNCHANGED <<path_exists, walk, cpus, data_sources, next, in_flight,
                   names_and_tags, size, collection, tags, db, store_calls, ires>>
    /\ UNCHANGED <<dir_at_start, dir_exists, created, out, errs, pexit, ticket,
                   accepted>>
    /\ UNCHANGED <<pathVars, redVars, getVars, againVars, exportVars>>

\* lines 280-282: import has returned
Imported ==
    /\ vpc = "import"
    /\ ipc = "done"
    /\ IF ires = "ok"
       THEN /\ out' = Append(out, ImportedLine)
            /\ vpc' = "ticket"
            /\ UNCHANGED pres
       ELSE /\ ProvideFails
            /\ UNCHANGED out
    /\ UNCHANGED <<dir_at_start, dir_exists, created, errs, pexit, ticket, accepted>>
    /\ UNCHANGED <<pathVars, importVars, redVars, getVars, againVars, exportVars>>

\* lines 285-293: the address is known, the ticket is made and printed
MakeTicket ==
    /\ vpc = "ticket"
    /\ \E ok \in BOOLEAN :
        IF ok
        THEN /\ ticket' = TRUE
             /\ out' = out \o TicketLines
             /\ vpc' = "accept"
             /\ UNCHANGED pres
        ELSE /\ ProvideFails
             /\ UNCHANGED <<ticket, out>>
    /\ UNCHANGED <<dir_at_start, dir_exists, created, errs, pexit, accepted>>
    /\ UNCHANGED <<pathVars, importVars, redVars, getVars, againVars, exportVars>>

\* lines 294-303: one turn of the accept loop: a connection is handed to its
\* own task, or the endpoint has closed and the loop ends
Accept ==
    /\ vpc = "accept"
    /\ \/ /\ accepted < MaxAccepts
          /\ accepted' = accepted + 1
          /\ UNCHANGED vpc
       \/ /\ vpc' = "remove"
          /\ UNCHANGED accepted
    /\ UNCHANGED <<dir_at_start, dir_exists, created, out, errs, pres, pexit, ticket>>
    /\ UNCHANGED <<pathVars, importVars, redVars, getVars, againVars, exportVars>>

\* lines 304-306: the data directory is removed
RemoveDataDir ==
    /\ vpc = "remove"
    /\ \E ok \in BOOLEAN :
        IF ok
        THEN /\ dir_exists' = FALSE
             /\ pres' = "ok"
             /\ vpc' = "returned"
        ELSE /\ ProvideFails
             /\ UNCHANGED dir_exists
    /\ UNCHANGED <<dir_at_start, created, out, errs, pexit, ticket, accepted>>
    /\ UNCHANGED <<pathVars, importVars, redVars, getVars, againVars, exportVars>>

\* lines 453-459: main turns provide's result into the exit status
ProvideExit ==
    /\ vpc = "returned"
    /\ pexit' = IF pres = "ok" THEN 0 ELSE 1
    /\ errs' = IF pres = "ok" THEN errs ELSE Append(errs, ErrorLine)
    /\ vpc' = "exited"
    /\ UNCHANGED <<dir_at_start, dir_exists, created, out, pres, ticket, accepted>>
    /\ UNCHANGED <<pathVars, importVars, redVars, getVars, againVars, exportVars>>

NextProvide ==
    \/ Bind
    \/ CheckDataDir
    \/ CreateDataDir
    \/ LoadStore
    \/ NextImport
    \/ Imported
    \/ MakeTicket
    \/ Accept
    \/ RemoveDataDir
    \/ ProvideExit

SpecProvide == InitProvide /\ [][NextProvide]_vars

-----------------------------------------------------------------------------
(* Claims about import, checked under SpecImport *)

\* import has built its Collection
Built == ipc \in {"store", "drop"} \/ (ipc = "done" /\ ires = "ok")

\* C1: the entries of the Collection import builds are in the enumeration
\* order of the files: the i-th entry is the i-th enumerated file, whatever
\* the order in which the ingestions completed.
C1_EnumerationOrder ==
    Built =>
        /\ Len(collection) = Len(data_sources)
        /\ \A i \in 1..Len(collection) : collection[i].name = data_sources[i].name

IngestFailed == \E i \in 1..Len(names_and_tags) : ~names_and_tags[i].ok

NameFailed ==
    /\ path_exists
    /\ \E i \in 1..Len(walk) : walk[i].kind = "file" /\ DataSource(walk[i]).tag = "err"

\* C3: when the ingestion of at least one file fails, or one file's name
\* fails sanitization, collection.store is never called, nothing is persisted
\* and import returns an error, whatever the other ingestions did.
C3_NoStoreOnFailure ==
    (IngestFailed \/ NameFailed) =>
        /\ store_calls = 0
        /\ db = {}
        /\ ipc \notin {"store", "drop"}
        /\ (ipc = "done" => ires = "err")

\* one ingestion failed after another had succeeded, and import has returned
C3_Witness ==
    /\ ipc = "done"
    /\ Len(names_and_tags) >= 2
    /\ names_and_tags[1].ok
    /\ ~names_and_tags[Len(names_and_tags)].ok

Segments(n) == {Split(n)[i] : i \in 1..Len(Split(n))}

ValidEntryName(n) ==
    /\ n # <<>>
    /\ n[1] # "/"
    /\ ~Contains(n, "\\")
    /\ \A seg \in Segments(n) : seg # <<>> /\ seg # <<".">> /\ seg # <<".", ".">>

\* C10: when import succeeds, the entry names of its Collection are pairwise
\* distinct for distinct source files, are non-empty segments joined by '/',
\* have no segment '.' or '..', no backslash and no leading '/'.
C10_EntryNames ==
    Built =>
        /\ \A i \in 1..Len(collection) : ValidEntryName(collection[i].name)
        /\ \A i, j \in 1..Len(collection) :
            i # j => collection[i].name # collection[j].name

\* import succeeded on a directory with two files
C10_Witness ==
    /\ ipc = "done" /\ ires = "ok"
    /\ Len(collection) = 2
    /\ \A i \in 1..2 : Len(Split(collection[i].name)) = 2

-----------------------------------------------------------------------------
(* Claims about the sanitizers, checked under SpecPath *)

\* C2: get_export_path either fails or returns a path under the destination
\* root: no segment of the name, in particular no '..', makes the final path
\* land outside that root.
C2_ExportUnderRoot ==
    (ppc = "exported" /\ expRes.ok) =>
        IsUnder(Resolve(expRes.val), Resolve(root))

\* C9: both sanitizers, canonicalized_path_to_string with must_be_relative
\* and get_export_path, reject every name of RejectNames and accept every
\* name of AcceptNames.
C9_SanitizerTable ==
    /\ (ppc = "sanitized" /\ must_be_relative) =>
        /\ (name \in RejectNames => ~sanRes.ok)
        /\ (name \in AcceptNames => sanRes.ok)
    /\ ppc = "exported" =>
        /\ (name \in RejectNames => ~expRes.ok)
        /\ (name \in AcceptNames => expRes.ok)

-----------------------------------------------------------------------------
(* Claims about get, checked under SpecGet *)

C5_SummaryOnce ==
    (gpc = "exited" /\ exit_code = 0) => summaries = 1

\* the overall positions of a collection of n items: 0,0,1,1,...,n-1,n-1,n
ExpectedPositions(n) ==
    [k \in 1..(2 * n + 1) |-> IF k = 2 * n + 1 THEN n ELSE (k - 1) \div 2]

\* CollectionDiscovered{N} is FoundHashSeq{children: N - 1}: the count the
\* display shows is children + 1

\* C7: for a collection of N items, FoundHashSeq sets the overall bar to
\* position 0 of N, the positions after the item and completion events are
\* 0,0,1,1,...,N-1,N-1,N, and after NetworkDone the bar is finished and the
\* summary written.
C7_CollectionPositions ==
    (is_seq /\ rpc # "idle") =>
        /\ (x.kind = "FoundHashSeq" => op.pos = 0 /\ op.len = n_items)
        /\ Len(positions) <= 2 * n_items + 1
        /\ positions = SubSeq(ExpectedPositions(n_items), 1, Len(positions))
        /\ x.kind = "NetworkDone" =>
            /\ positions = ExpectedPositions(n_items)
            /\ op.status = DoneHidden
            /\ summaries = 1

\* the three-item collection, consumed up to NetworkDone
C7_Witness ==
    /\ is_seq /\ n_items = 3
    /\ x.kind = "NetworkDone"
    /\ positions = <<0, 0, 1, 1, 2, 2, 3>>

-----------------------------------------------------------------------------
(* Claims about show_download_progress, checked under SpecReducer *)

\* the display's phase, read off the bars
Phase ==
    IF rpc = "err" THEN "Aborted"
    ELSE IF summaries > 0 THEN "Finished"
    ELSE IF seq THEN "ReceivingCollection"
    ELSE IF op.status = DoneHidden THEN "ReceivingSingleItem"
    ELSE IF op.message.step = 2 THEN "Requesting"
    ELSE "Connecting"

\* this step consumed an event of kind k
Took(k) == consumed' = consumed + 1 /\ x'.kind = k

\* C6: once NetworkDone or Abort was consumed, an event that arrives later
\* changes neither bar nor the phase and does not make the function fail.
C6_PostTerminalIgnored ==
    [][ (summaries > 0 \/ rpc = "err") =>
            /\ op' = op
            /\ ip' = ip
            /\ Phase' = Phase
            /\ (rpc # "err" => rpc' # "err") ]_vars

C8_Step ==
    /\ Took("Found") =>
        /\ (seq => op'.pos = x'.a)
        /\ (~seq => /\ op'.pos = op.pos
                    /\ op'.status = DoneHidden
                    /\ (summaries = 0 => Phase' = "ReceivingSingleItem"))
        /\ ip'.pos = 0
        /\ ip'.len = x'.b
    /\ (Took("Connected") /\ Phase = "Connecting") => Phase' = "Requesting"
    /\ (Took("Found") /\ Phase = "Requesting") => Phase' = "ReceivingSingleItem"
    /\ ((Took("Progress") \/ Took("Done")) /\ Phase = "ReceivingSingleItem")
            => Phase' = "ReceivingSingleItem"
    /\ (Took("NetworkDone") /\ Phase = "ReceivingSingleItem") => Phase' = "Finished"

\* C8: on every Found, the overall position becomes the child index if
\* FoundHashSeq was consumed before, and otherwise the overall bar is put
\* away without advancing (a single item is received); either way the
\* current-item bar restarts at 0 with the declared size as its length. From
\* Connecting, the stream Connected, Found, Progress*, Done, NetworkDone goes
\* through Requesting and ReceivingSingleItem and ends Finished.
C8_ItemStarted ==
    /\ [](consumed = 0 => Phase = "Connecting")
    /\ [][C8_Step]_vars

\* a single blob was received: Connected, Found, Progress, Done, NetworkDone
C8_Witness ==
    /\ consumed = 5
    /\ x.kind = "NetworkDone"
    /\ ~seq
    /\ Phase = "Finished"
    /\ op.message.step = 2
    /\ ip.len = 2 /\ ip.pos = 2 /\ ip.status = DoneHidden

-----------------------------------------------------------------------------
(* import called twice *)

\* C11: the second call of import on the same unchanged tree builds the
\* Collection the first call built: the same (name, hash) pairs in the same
\* order, whatever the order in which the workers of either call completed.
C11_SameCollection ==
    (run = 2 /\ Built) => collection = prev_collection

-----------------------------------------------------------------------------
(* export *)

RegularFiles == {i \in 1..Len(walk) : walk[i].kind = "file"}

\* the files of the tree: path relative to the parent of the root, and hash
TreePairs ==
    {[loc |-> walk[i].rel, hash |-> HashOf(walk[i].content)] : i \in RegularFiles}

\* the files export wrote: path relative to the destination root, and hash
DiskPairs ==
    {[loc |-> SubSeq(f.loc, Len(Resolve(cwd)) + 1, Len(f.loc)), hash |-> f.hash] :
        f \in disk}

\* C12: when export of the Collection that import built from a tree has
\* returned Ok, the files it wrote lie under the destination root and are,
\* as (relative path, hash) pairs, exactly the regular files of the tree
\* relative to the parent of its root: none missing, none extra.
C12_RoundTrip ==
    (epc = "done" /\ eres = "ok") =>
        /\ \A f \in disk : IsUnder(f.loc, Resolve(cwd))
        /\ DiskPairs = TreePairs
        /\ Cardinality(disk) = Cardinality(RegularFiles)

\* a directory with two files of different content went through
C12_Witness ==
    /\ epc = "done" /\ eres = "ok"
    /\ Cardinality(disk) = 2
    /\ \E f, g \in disk : f.hash # g.hash
    /\ cwd = <<"/", "d", "/", "e">>

\* C17: export handles the entries in collection order and stops at the
\* first error: the entries exported are 1..k-1 in that order, where k is
\* the position the loop is at; when export returned an error at k, every
\* entry before k is on disk and no entry from k on is; when it returned Ok
\* every entry was exported.
C17_StopsAtFirstError ==
    /\ exported = [i \in 1..(entry_k - 1) |-> i]
    /\ Cardinality(disk) = entry_k - 1
    /\ \A i \in 1..Len(loaded) :
          (\E f \in disk : /\ f.hash = loaded[i].hash
                           /\ get_export_path(cwd, loaded[i].name).ok
                           /\ f.loc = Resolve(get_export_path(cwd, loaded[i].name).val))
            <=> i < entry_k
    /\ (epc = "done" /\ eres = "ok") => entry_k = Len(loaded) + 1
    /\ (epc = "done" /\ eres = "err" /\ cwd # <<>>) => entry_k <= Len(loaded)

\* the export of the second of two entries failed after the first was written
C17_Witness ==
    /\ epc = "done" /\ eres = "err"
    /\ Len(loaded) = 2
    /\ entry_k = 2
    /\ exported = <<1>>
    /\ Cardinality(disk) = 1

-----------------------------------------------------------------------------
(* import: tags, the worker pool, enumeration before ingestion, entries *)

\* C13: while import has not failed, the temp tag of every file that was
\* ingested is alive until the Collection is in the store: at every moment
\* the blob is protected by its own tag or by the persisted Collection, and
\* the tags are released only after collection.store succeeded.
C13_TagsOutliveStore ==
    ires # "err" =>
        \A i \in 1..Len(names_and_tags) :
            names_and_tags[i].ok =>
                \/ names_and_tags[i].src \in tags
                \/ (ipc = "done" /\ collection \in db)

\* the Collection of two files is stored and their two tags are still alive
C13_Witness ==
    /\ ipc = "drop"
    /\ collection \in db
    /\ Len(collection) = 2
    /\ Cardinality(tags) = 2

IngestedSources == {names_and_tags[i].src : i \in 1..Len(names_and_tags)}

\* C15: at every moment at most num_cpus ingestions are in flight, no data
\* source is handed to import_file twice, and when the stream has ended
\* every enumerated file was ingested exactly once.
C15_PoolBound ==
    /\ Cardinality(in_flight) <= cpus
    /\ in_flight \cap IngestedSources = {}
    /\ in_flight \cup IngestedSources = 1..(next - 1)
    /\ Cardinality(IngestedSources) = Len(names_and_tags)
    /\ next - 1 <= Len(data_sources)
    /\ (ipc \in {"store", "drop", "done"} => IngestedSources = 1..Len(data_sources))

\* the pool of one worker is full while a second file waits
C15_Witness ==
    /\ ipc = "ingest"
    /\ cpus = 1
    /\ Cardinality(in_flight) = 1
    /\ next = 2
    /\ Len(data_sources) = 2

\* C16: no import_file call starts unless the root exists and every
\* enumerated file was named successfully; when the root is missing or one
\* name fails, import fails before the first ingestion.
C16_NamedBeforeIngest ==
    (~path_exists \/ NameFailed) =>
        /\ next = 1
        /\ in_flight = {}
        /\ names_and_tags = <<>>
        /\ ipc \in {"start", "done"}
        /\ (ipc = "done" => ires = "err")

\* import failed on a file's name although another file could be ingested
C16_Witness ==
    /\ NameFailed
    /\ \E i \in 1..Len(walk) : DataSource(walk[i]).tag = "some"
    /\ ipc = "done"
    /\ ires = "err"

\* C18: the entries of the Collection correspond one to one to the regular
\* files of the walk: directories and symlinks give no entry, and each
\* entry's name is the file's path relative to the parent of the root (the
\* file's own name for a single-file root, the root directory's name and
\* the path below it otherwise), with the hash of that file's content.
C18_EntriesAreFiles ==
    Built =>
        /\ Len(collection) = Cardinality(RegularFiles)
        /\ \A i \in RegularFiles :
              \E k \in 1..Len(collection) :
                  /\ collection[k].name = Join(walk[i].rel)
                  /\ collection[k].hash = HashOf(walk[i].content)
        /\ \A k \in 1..Len(collection) :
              \E i \in RegularFiles : collection[k].name = Join(walk[i].rel)
        /\ (walk[1].kind = "file" => collection[1].name = RootName)
        /\ \A k \in 1..Len(collection) :
              SubSeq(collection[k].name, 1, Len(RootName)) = RootName

\* a directory root holding a symlink and one file gave one entry
C18_Witness ==
    /\ ipc = "done" /\ ires = "ok"
    /\ Len(walk) = 3
    /\ walk[1].kind = "dir"
    /\ \E i \in 2..3 : walk[i].kind = "symlink"
    /\ Len(collection) = 1
    /\ Len(collection[1].name) = 3

-----------------------------------------------------------------------------
(* show_download_progress: Progress *)

\* C19: a Progress event sets the position of the current-item bar to its
\* offset and changes nothing else: the overall bar, the seq flag and the
\* current-item bar's length, status and message stay as they were,
\* whatever id the event carries.
C19_ProgressFrame ==
    [][Took("Progress") =>
        /\ ip' = [ip EXCEPT !.pos = x'.a]
        /\ op' = op
        /\ seq' = seq
        /\ summaries' = summaries
        /\ rpc' = rpc]_vars

\* inside a collection, a Progress for another id moved the current-item bar
C19_Witness ==
    /\ x.kind = "Progress"
    /\ x.b = MaxChildren
    /\ x.a = 1
    /\ seq
    /\ ip.pos = 1
    /\ ip.len = 2
    /\ op.pos = 1

-----------------------------------------------------------------------------
(* provide and main *)

Lines(q) == {q[i] : i \in 1..Len(q)}

\* C14: a run of provide ends with status 0 exactly when provide succeeded,
\* and when it ends with a non-zero status the message of the error was
\* written to stderr and no error message was written to stdout.
C14_ExitAndErrorChannel ==
    pexit # -1 =>
        /\ (pexit = 0 <=> pres = "ok")
        /\ (pexit # 0 => /\ ErrorLine \in Lines(errs)
                         /\ TwiceLine \notin Lines(out))

\* C20: when .sendme-provide exists as provide starts, provide imports
\* nothing, prints no ticket, accepts no connection, leaves the directory
\* where it is and ends with exit status 1; and the directory is removed
\* only by a run that created it, after its accept loop has ended.
C20_DataDirGuard ==
    /\ [](dir_at_start =>
            /\ vpc \in {"start", "check", "returned", "exited"}
            /\ ipc = "idle"
            /\ db = {}
            /\ ~ticket
            /\ accepted = 0
            /\ ~created
            /\ dir_exists
            /\ (vpc = "exited" => pexit = 1))
    /\ [][(dir_exists /\ ~dir_exists') => (created /\ ~dir_at_start /\ vpc = "remove")]_vars

\* provide found the directory and the process exited
C20_Witness ==
    /\ dir_at_start
    /\ dir_exists
    /\ vpc = "exited"
    /\ pexit = 1
    /\ pres = "none"
    /\ out = <<TwiceLine>>

=============================================================================
